---- MODULE Spec2Model ----
(***************************************************************************)
(* A model of the SQL statement compiler of pkg/sql (stmt.go): the         *)
(* catalog, the statements' CompileUsing methods, TableRef resolution and  *)
(* the jointColumnTo walk over boolean expressions.                        *)
(*                                                                         *)
(* Byte strings are sequences of numbers 0..255.  The engine is the pair   *)
(* (catalog, implicitDatabase); a call's result is held in ret until the   *)
(* caller takes it (the engine compiles one statement at a time).          *)
(***************************************************************************)
EXTENDS Integers, Sequences, FiniteSets, Bags, TLC

VARIABLES catalog,          \* Engine.catalog: the databases, in id order
          implicitDatabase, \* Engine.implicitDatabase ("" when none)
          ret,              \* the result of the call in progress
          emitted,          \* bag of the CATALOG.INDEX keys CREATE INDEX returned so far
          jin,              \* input of a jointColumnTo call
          jout              \* its result

vars == <<catalog, implicitDatabase, ret, emitted, jin, jout>>

---------------------------------------------------------------------------
(* Bounds of the model *)

MaxTxLen == 2
MaxRows == 2
MaxOrderBy == 2

---------------------------------------------------------------------------
(* Byte strings *)

\* []byte(s) for the strings the model uses
Bytes(s) ==
  CASE s = "" -> <<>>
    [] s = "CATALOG.DATABASE." -> <<67,65,84,65,76,79,71,46,68,65,84,65,66,65,83,69,46>>
    [] s = "CATALOG.TABLE." -> <<67,65,84,65,76,79,71,46,84,65,66,76,69,46>>
    [] s = "CATALOG.COLUMN." -> <<67,65,84,65,76,79,71,46,67,79,76,85,77,78,46>>
    [] s = "CATALOG.INDEX." -> <<67,65,84,65,76,79,71,46,73,78,68,69,88,46>>
    [] s = "ROW." -> <<82,79,87,46>>
    [] s = "INTEGER" -> <<73,78,84,69,71,69,82>>
    [] s = "STRING" -> <<83,84,82,73,78,71>>
    [] s = "db1" -> <<100,98,49>>
    [] s = "db2" -> <<100,98,50>>
    [] s = "t1" -> <<116,49>>
    [] s = "t2" -> <<116,50>>
    [] s = "id" -> <<105,100>>
    [] s = "a" -> <<97>>
    [] s = "b" -> <<98>>

catalogDatabasePrefix == "CATALOG.DATABASE."
catalogTablePrefix == "CATALOG.TABLE."
catalogColumnPrefix == "CATALOG.COLUMN."
catalogIndexPrefix == "CATALOG.INDEX."
rowPrefix == "ROW."

IntegerType == "INTEGER"
StringType == "STRING"

\* The w low bytes of n, most significant first
RECURSIVE BigEndian(_, _)
BigEndian(n, w) == IF w = 0 THEN <<>> ELSE Append(BigEndian(n \div 256, w - 1), n % 256)

\* binary.BigEndian.PutUint32
PutUint32(n) == BigEndian(n, 4)

\* binary.BigEndian.PutUint64
PutUint64(n) == BigEndian(n, 8)

\* encodeID: an id as 8 bytes, big-endian
encodeID(id) == PutUint64(id)

RECURSIVE Concat(_)
Concat(parts) == IF parts = <<>> THEN <<>> ELSE Head(parts) \o Concat(Tail(parts))

\* Engine.mapKey: the prefix followed by the parts (no per-engine prefix)
mapKey(prefix, parts) == Bytes(prefix) \o Concat(parts)

asKey == TRUE

MaxStringKeyLen == 2

\* maxKeyVal: the greatest key encoding of a value of the type
maxKeyVal(colType) ==
  IF colType = IntegerType THEN [i \in 1..8 |-> 255]
  ELSE [i \in 1..(4 + MaxStringKeyLen) |-> 255]

\* encodeValue: [err, bytes]
encodeValue(val, colType, key) ==
  CASE colType = IntegerType ->
         IF val.kind # "Number" THEN [err |-> "InvalidValue", bytes |-> <<>>]
         ELSE [err |-> "",
               bytes |-> IF key
                         THEN LET b == PutUint64(val.num)
                              IN [b EXCEPT ![1] = (b[1] + 128) % 256]
                         ELSE PutUint64(val.num)]
    [] colType = StringType ->
         IF val.kind # "String" THEN [err |-> "InvalidValue", bytes |-> <<>>]
         ELSE IF key /\ Len(val.str) > MaxStringKeyLen
              THEN [err |-> "InvalidValue", bytes |-> <<>>]
              ELSE [err |-> "", bytes |-> PutUint32(Len(val.str)) \o val.str]
    [] OTHER -> [err |-> "InvalidValue", bytes |-> <<>>]

KV(k, v) == [Key |-> k, Value |-> v]

---------------------------------------------------------------------------
(* Catalog *)

\* Catalog.ExistDatabase
ExistDatabase(cat, name) == \E i \in DOMAIN cat : cat[i].name = name

\* Catalog.dbsByName[name]: the database's id
dbsByName(cat, name) == CHOOSE i \in DOMAIN cat : cat[i].name = name

\* Catalog.newDatabase
newDatabase(cat, name) ==
  IF ExistDatabase(cat, name)
  THEN [err |-> "DatabaseAlreadyExists", catalog |-> cat, id |-> 0]
  ELSE [err |-> "",
        catalog |-> Append(cat, [name |-> name, tables |-> <<>>]),
        id |-> Len(cat) + 1]

\* Database.tablesByName: whether the table exists, and its id
ExistTable(db, name) == \E i \in DOMAIN db.tables : db.tables[i].name = name
tablesByName(db, name) == CHOOSE i \in DOMAIN db.tables : db.tables[i].name = name

\* Table.colsByName: whether the column exists, and its id
ExistColumn(table, name) == \E i \in DOMAIN table.cols : table.cols[i].colName = name
colsByName(table, name) == CHOOSE i \in DOMAIN table.cols : table.cols[i].colName = name

\* Database.newTable
newTable(db, name, colsSpec, pk) ==
  LET fail(e) == [err |-> e, db |-> db, id |-> 0]
  IN IF ExistTable(db, name) THEN fail("TableAlreadyExists")
     ELSE IF \E i, j \in DOMAIN colsSpec : i # j /\ colsSpec[i].colName = colsSpec[j].colName
          THEN fail("DuplicatedColumn")
     ELSE IF ~ \E i \in DOMAIN colsSpec : colsSpec[i].colName = pk
          THEN fail("InvalidPK")
     ELSE LET table == [name |-> name,
                        cols |-> colsSpec,
                        pk |-> CHOOSE i \in DOMAIN colsSpec : colsSpec[i].colName = pk,
                        indexes |-> {}]
          IN [err |-> "",
              db |-> [db EXCEPT !.tables = Append(@, table)],
              id |-> Len(db.tables) + 1]

\* The orders in which a range over a Go map may visit the keys S
Orderings(S) ==
  {f \in [1..Cardinality(S) -> S] : \A i, j \in 1..Cardinality(S) : i # j => f[i] # f[j]}

---------------------------------------------------------------------------
(* Statements: CompileUsing returns the set of its possible outcomes       *)
(* [catalog, implicitDatabase, ces, des, err]                              *)

Engine(cat, imp) == [catalog |-> cat, implicitDatabase |-> imp]

Outcome(e, ces, des, err) ==
  [catalog |-> e.catalog, implicitDatabase |-> e.implicitDatabase,
   ces |-> ces, des |-> des, err |-> err]

Fail(e, err) == Outcome(e, <<>>, <<>>, err)

\* CreateDatabaseStmt.CompileUsing
CreateDatabaseCompile(stmt, e) ==
  LET r == newDatabase(e.catalog, stmt.db)
  IN IF r.err # "" THEN {Fail(e, r.err)}
     ELSE {Outcome([e EXCEPT !.catalog = r.catalog],
                   <<KV(mapKey(catalogDatabasePrefix, <<encodeID(r.id)>>), Bytes(stmt.db))>>,
                   <<>>, "")}

\* UseDatabaseStmt.CompileUsing
UseDatabaseCompile(stmt, e) ==
  IF ~ExistDatabase(e.catalog, stmt.db) THEN {Fail(e, "DatabaseDoesNotExist")}
  ELSE {Outcome([e EXCEPT !.implicitDatabase = stmt.db], <<>>, <<>>, "")}

\* UseSnapshotStmt.CompileUsing
UseSnapshotCompile(stmt, e) == {Fail(e, "NotYetSupported")}

\* CreateTableStmt.CompileUsing
CreateTableCompile(stmt, e) ==
  IF e.implicitDatabase = "" THEN {Fail(e, "NoDatabaseSelected")}
  ELSE
    LET dbID == dbsByName(e.catalog, e.implicitDatabase)
        r == newTable(e.catalog[dbID], stmt.table, stmt.colsSpec, stmt.pk)
    IN IF r.err # "" THEN {Fail(e, r.err)}
       ELSE
         LET table == r.db.tables[r.id]
             ce(colID) ==
               KV(mapKey(catalogColumnPrefix,
                         <<encodeID(dbID), encodeID(r.id), encodeID(colID),
                           Bytes(table.cols[colID].colType)>>),
                  <<>>)
             te == KV(mapKey(catalogTablePrefix,
                             <<encodeID(dbID), encodeID(r.id), encodeID(table.pk)>>),
                      Bytes(table.name))
         IN {Outcome([e EXCEPT !.catalog[dbID] = r.db],
                     [i \in DOMAIN ord |-> ce(ord[i])] \o <<te>>,
                     <<>>, "")
             : ord \in Orderings(DOMAIN table.cols)}

\* A CREATE INDEX that skips the check of the PK column
IsPKNever(table, colName) == FALSE

\* table.pk.colName == stmt.col, the first check of CreateIndexStmt.CompileUsing
IsPK(table, colName) == table.cols[table.pk].colName = colName

\* CreateIndexStmt.CompileUsing
CreateIndexCompile(stmt, e) ==
  IF e.implicitDatabase = "" THEN {Fail(e, "NoDatabaseSelected")}
  ELSE
    LET dbID == dbsByName(e.catalog, e.implicitDatabase)
        db == e.catalog[dbID]
    IN IF ~ExistTable(db, stmt.table) THEN {Fail(e, "TableDoesNotExist")}
       ELSE
         LET tID == tablesByName(db, stmt.table)
             table == db.tables[tID]
         IN IF IsPK(table, stmt.col) THEN {Fail(e, "IndexAlreadyExists")}
            ELSE IF ~ExistColumn(table, stmt.col) THEN {Fail(e, "ColumnDoesNotExist")}
            ELSE
              LET colID == colsByName(table, stmt.col)
              IN IF colID \in table.indexes THEN {Fail(e, "IndexAlreadyExists")}
                 ELSE {Outcome([e EXCEPT !.catalog[dbID].tables[tID].indexes = @ \cup {colID}],
                               <<KV(mapKey(catalogIndexPrefix,
                                           <<encodeID(dbID), encodeID(tID), encodeID(colID)>>),
                                    Bytes(table.name))>>,
                               <<>>, "")}

\* AddColumnStmt.CompileUsing
AddColumnCompile(stmt, e) == {Fail(e, "NotYetSupported")}

---------------------------------------------------------------------------
(* TableRef and UPSERT *)

NilEngine == [nil |-> TRUE]
IsNil(x) == "nil" \in DOMAIN x

\* `var db string` of TableRef.referencedTable: the database name before the first check
declaredDB(ref) == ""

\* TableRef.referencedTable: [err, db, table] (the ids of the database and the table)
referencedTable(ref, e) ==
  LET fail(err) == [err |-> err, db |-> 0, table |-> 0]
      db0 == declaredDB(ref)
  IN IF IsNil(e) THEN fail("IllegalArguments")
     ELSE IF db0 # "" /\ ~ExistDatabase(e.catalog, ref.db) THEN fail("DatabaseDoesNotExist")
     ELSE
       LET db1 == IF db0 # "" THEN ref.db ELSE db0
       IN IF db1 = "" /\ e.implicitDatabase = "" THEN fail("NoDatabaseSelected")
          ELSE
            LET db == IF db1 = "" THEN e.implicitDatabase ELSE db1
                dbID == dbsByName(e.catalog, db)
            IN IF ~ExistTable(e.catalog[dbID], ref.table) THEN fail("TableDoesNotExist")
               ELSE [err |-> "", db |-> dbID,
                     table |-> tablesByName(e.catalog[dbID], ref.table)]

\* RowSpec.Bytes, from the i-th value on: [err, bytes]
RECURSIVE RowBytesFrom(_, _, _, _, _)
RowBytesFrom(r, t, cols, i, valbuf) ==
  IF i > Len(r.Values) THEN [err |-> "", bytes |-> valbuf]
  ELSE
    LET col == t.cols[colsByName(t, cols[i])]
        valb == encodeValue(r.Values[i], col.colType, ~asKey)
    IN IF valb.err # "" THEN [err |-> valb.err, bytes |-> <<>>]
       ELSE RowBytesFrom(r, t, cols, i + 1,
                         valbuf \o PutUint32(Len(Bytes(col.colName)))
                                \o Bytes(col.colName) \o valb.bytes)

\* RowSpec.Bytes
RowBytes(r, t, cols) == RowBytesFrom(r, t, cols, 1, PutUint32(Len(cols)))

\* UpsertIntoStmt.Validate, from the i-th listed column on: [err, sel]
RECURSIVE ValidateFrom(_, _, _, _, _)
ValidateFrom(stmt, table, i, pkIncluded, selByColID) ==
  IF i > Len(stmt.cols)
  THEN IF ~pkIncluded THEN [err |-> "PKCanNotBeNull", sel |-> <<>>]
       ELSE [err |-> "", sel |-> selByColID]
  ELSE IF ~ExistColumn(table, stmt.cols[i]) THEN [err |-> "InvalidColumn", sel |-> <<>>]
  ELSE
    LET colID == colsByName(table, stmt.cols[i])
    IN IF colID \in DOMAIN selByColID THEN [err |-> "DuplicatedColumn", sel |-> <<>>]
       ELSE ValidateFrom(stmt, table, i + 1,
                         pkIncluded \/ table.cols[table.pk].colName = stmt.cols[i],
                         (colID :> (i - 1)) @@ selByColID)

\* UpsertIntoStmt.Validate: sel maps the id of each listed column to its place (from 0)
Validate(stmt, table) == ValidateFrom(stmt, table, 1, FALSE, <<>>)

\* cs[colID] on a Go map: the zero value for a key that is not there
MapIndex(cs, colID) == IF colID \in DOMAIN cs THEN cs[colID] ELSE 0

\* The value of a row that the UPSERT takes for column colID
RowValue(row, cs, colID) == row.Values[MapIndex(cs, colID) + 1]

\* A key of an indexed column that leaves the PK encoding out
IndexKeyNoPK(dbID, tID, colID, encVal, pkEncVal) ==
  mapKey(rowPrefix, <<encodeID(dbID), encodeID(tID), encodeID(colID), encVal>>)

\* The key of the entry of an indexed column
IndexKey(dbID, tID, colID, encVal, pkEncVal) ==
  mapKey(rowPrefix, <<encodeID(dbID), encodeID(tID), encodeID(colID), encVal, pkEncVal>>)

\* The loop over table.indexes for one row, visiting the columns in the order ord
RECURSIVE IndexEntries(_, _, _, _, _, _, _, _)
IndexEntries(row, table, dbID, tID, cs, pkEncVal, ord, des) ==
  IF ord = <<>> THEN [err |-> "", des |-> des]
  ELSE
    LET colID == Head(ord)
        cVal == RowValue(row, cs, colID)
        encVal == encodeValue(cVal, table.cols[colID].colType, asKey)
    IN IF encVal.err # "" THEN [err |-> encVal.err, des |-> <<>>]
       ELSE IndexEntries(row, table, dbID, tID, cs, pkEncVal, Tail(ord),
              Append(des, KV(IndexKey(dbID, tID, colID, encVal.bytes, pkEncVal), <<>>)))

\* The body of the loop over stmt.rows: the possible [err, des] of one row
UpsertRow(row, stmt, table, dbID, tID, cs) ==
  IF Len(row.Values) # Len(stmt.cols) THEN {[err |-> "InvalidNumberOfValues", des |-> <<>>]}
  ELSE
    LET pkVal == RowValue(row, cs, table.pk)
        pkEncVal == encodeValue(pkVal, table.cols[table.pk].colType, asKey)
    IN IF pkEncVal.err # "" THEN {[err |-> pkEncVal.err, des |-> <<>>]}
       ELSE
         LET bs == RowBytes(row, table, stmt.cols)
         IN IF bs.err # "" THEN {[err |-> bs.err, des |-> <<>>]}
            ELSE
              LET pke == KV(mapKey(rowPrefix,
                                   <<encodeID(dbID), encodeID(tID), encodeID(table.pk),
                                     pkEncVal.bytes>>),
                            bs.bytes)
              IN {IndexEntries(row, table, dbID, tID, cs, pkEncVal.bytes, ord, <<pke>>)
                  : ord \in Orderings(table.indexes)}

\* The loop over stmt.rows from the i-th row on
RECURSIVE UpsertRows(_, _, _, _, _, _, _)
UpsertRows(stmt, table, dbID, tID, cs, i, des) ==
  IF i > Len(stmt.rows) THEN {[err |-> "", des |-> des]}
  ELSE UNION {IF r.err # "" THEN {[err |-> r.err, des |-> <<>>]}
              ELSE UpsertRows(stmt, table, dbID, tID, cs, i + 1, des \o r.des)
              : r \in UpsertRow(stmt.rows[i], stmt, table, dbID, tID, cs)}

\* UpsertIntoStmt.CompileUsing
UpsertIntoCompile(stmt, e) ==
  LET t == referencedTable(stmt.tableRef, e)
  IN IF t.err # "" THEN {Fail(e, t.err)}
     ELSE
       LET table == e.catalog[t.db].tables[t.table]
           cs == Validate(stmt, table)
       IN IF cs.err # "" THEN {Fail(e, cs.err)}
          ELSE {Outcome(e, <<>>, r.des, r.err)
                : r \in UpsertRows(stmt, table, t.db, t.table, cs.sel, 1, <<>>)}

---------------------------------------------------------------------------
(* Dispatch and TxStmt *)

\* stmt.ds.(*TableRef): whether the data source is a TableRef (and not a SelectStmt)
IsTableRef(ds) == "kind" \notin DOMAIN ds

\* A test of the ORDER BY column that accepts a column without an index
OrderByCheckAnyColumn(table, colName) ==
  IF ~ExistColumn(table, colName) THEN "LimitedOrderBy" ELSE ""

\* The test of the ORDER BY column once the table is resolved: "" or LimitedOrderBy
OrderByCheck(table, colName) ==
  IF ~ExistColumn(table, colName) THEN "LimitedOrderBy"
  ELSE
    LET colID == colsByName(table, colName)
    IN IF table.pk = colID THEN ""
       ELSE IF colID \notin table.indexes THEN "LimitedOrderBy"
       ELSE ""

\* SelectStmt.CompileUsing
SelectCompile(stmt, e) ==
  IF Len(stmt.orderBy) > 1 THEN {Fail(e, "LimitedOrderBy")}
  ELSE IF Len(stmt.orderBy) > 0
  THEN IF ~IsTableRef(stmt.ds) THEN {Fail(e, "LimitedOrderBy")}
       ELSE
         LET t == referencedTable(stmt.ds, e)
         IN IF t.err # "" THEN {Fail(e, t.err)}
            ELSE {Outcome(e, <<>>, <<>>,
                          OrderByCheck(e.catalog[t.db].tables[t.table], stmt.orderBy[1].sel.col))}
  ELSE {Outcome(e, <<>>, <<>>, "")}

\* SQLStmt.CompileUsing of a statement that is not a TxStmt
StmtCompile(stmt, e) ==
  CASE stmt.kind = "CreateDatabase" -> CreateDatabaseCompile(stmt, e)
    [] stmt.kind = "UseDatabase" -> UseDatabaseCompile(stmt, e)
    [] stmt.kind = "UseSnapshot" -> UseSnapshotCompile(stmt, e)
    [] stmt.kind = "CreateTable" -> CreateTableCompile(stmt, e)
    [] stmt.kind = "CreateIndex" -> CreateIndexCompile(stmt, e)
    [] stmt.kind = "AddColumn" -> AddColumnCompile(stmt, e)
    [] stmt.kind = "UpsertInto" -> UpsertIntoCompile(stmt, e)
    [] stmt.kind = "Select" -> SelectCompile(stmt, e)

\* What the TxStmt loop assigns to des after a child returned ds: `ds = append(ds, ds...)`
\* changes the child's ds, and des is left as it was
TxAppendDes(des, ds) == des

\* The loop of TxStmt.CompileUsing from the i-th child on.  children records the
\* (cs, ds) each child returned.
RECURSIVE TxLoop(_, _, _, _, _, _)
TxLoop(stmts, i, e, ces, des, children) ==
  IF i > Len(stmts)
  THEN {[catalog |-> e.catalog, implicitDatabase |-> e.implicitDatabase,
         ces |-> ces, des |-> des, err |-> "", children |-> children]}
  ELSE UNION {
         LET e2 == Engine(o.catalog, o.implicitDatabase)
             kids == Append(children, [cs |-> o.ces, ds |-> o.des])
         IN IF o.err # ""
            THEN {[catalog |-> o.catalog, implicitDatabase |-> o.implicitDatabase,
                   ces |-> <<>>, des |-> <<>>, err |-> o.err, children |-> kids]}
            ELSE TxLoop(stmts, i + 1, e2, ces \o o.ces, TxAppendDes(des, o.des), kids)
         : o \in StmtCompile(stmts[i], e)}

\* TxStmt.CompileUsing
TxCompile(stmt, e) == TxLoop(stmt.stmts, 1, e, <<>>, <<>>, <<>>)

---------------------------------------------------------------------------
(* TableRef.Resolve *)

Nil == [nil |-> TRUE]

\* Engine.newRawRowReader: the reader over the chosen index, from initKeyVal on
newRawRowReader(snap, t, colName, cmp, initKeyVal) ==
  [err |-> "",
   reader |-> [db |-> t.db, table |-> t.table, colName |-> colName,
               cmp |-> cmp, initKeyVal |-> initKeyVal]]

\* TableRef.Resolve: [err, reader]
Resolve(ref, e, snap, ordCol) ==
  LET fail(err) == [err |-> err, reader |-> Nil]
  IN IF IsNil(e) \/ IsNil(snap) \/ (~IsNil(ordCol) /\ IsNil(ordCol.sel))
     THEN fail("IllegalArguments")
     ELSE
       LET t == referencedTable(ref, e)
       IN IF t.err # "" THEN fail(t.err)
          ELSE
            LET db == e.catalog[t.db]
                table == db.tables[t.table]
                initKeyVal0 == <<>>
            IN IF IsNil(ordCol)
               THEN newRawRowReader(snap, t, table.cols[table.pk].colName,
                                    "GreaterOrEqualTo", initKeyVal0)
               ELSE IF ordCol.sel.db # "" /\ ordCol.sel.db # db.name
                    THEN fail("InvalidColumn")
               ELSE IF ordCol.sel.table # "" /\ ordCol.sel.table # table.name
                    THEN fail("InvalidColumn")
               ELSE IF ~ExistColumn(table, ordCol.sel.col) THEN fail("ColumnDoesNotExist")
               ELSE
                 LET colID == colsByName(table, ordCol.sel.col)
                     col == table.cols[colID]
                 IN IF table.cols[table.pk].colName # ordCol.sel.col
                       /\ colID \notin table.indexes
                    THEN fail("ColumnNotIndexed")
                    ELSE IF ordCol.useInitKeyVal
                            /\ Len(initKeyVal0) > Len(maxKeyVal(col.colType))
                         THEN fail("IllegalArguments")
                    ELSE
                      LET initKeyVal1 == IF ordCol.useInitKeyVal THEN ordCol.initKeyVal
                                         ELSE initKeyVal0
                          initKeyVal2 ==
                            IF ~ordCol.useInitKeyVal
                               /\ ordCol.cmp \in {"LowerThan", "LowerOrEqualTo"}
                            THEN maxKeyVal(col.colType)
                            ELSE initKeyVal1
                      IN newRawRowReader(snap, t, col.colName, ordCol.cmp, initKeyVal2)

---------------------------------------------------------------------------
(* The inputs of the calls *)

DbNames == {"db1", "db2"}
TableNames == {"t1"}
ColNames == {"id", "a", "b"}

\* Number{val} and String{val} (the fields are named apart: their values differ in kind)
Number(n) == [kind |-> "Number", num |-> n]
String(s) == [kind |-> "String", str |-> s]

ColSpec(n, t) == [colName |-> n, colType |-> t]

Schemas ==
  {[cols |-> <<ColSpec("id", IntegerType), ColSpec("a", IntegerType), ColSpec("b", StringType)>>,
    pk |-> "id"],
   [cols |-> <<ColSpec("a", StringType), ColSpec("id", IntegerType)>>, pk |-> "id"],
   [cols |-> <<ColSpec("id", IntegerType), ColSpec("id", StringType)>>, pk |-> "id"],
   [cols |-> <<ColSpec("id", IntegerType)>>, pk |-> "a"]}

CreateDatabaseStmts == {[kind |-> "CreateDatabase", db |-> d] : d \in DbNames}
UseDatabaseStmts == {[kind |-> "UseDatabase", db |-> d] : d \in DbNames}
UseSnapshotStmts == {[kind |-> "UseSnapshot", since |-> "", upTo |-> ""]}
CreateTableStmts ==
  {[kind |-> "CreateTable", table |-> t, colsSpec |-> s.cols, pk |-> s.pk]
   : t \in TableNames, s \in Schemas}
CreateIndexStmts ==
  {[kind |-> "CreateIndex", table |-> t, col |-> c] : t \in TableNames, c \in ColNames}
AddColumnStmts ==
  {[kind |-> "AddColumn", table |-> t, colSpec |-> ColSpec("b", StringType)] : t \in TableNames}

TableRefs == {[db |-> d, table |-> t, as |-> ""] : d \in {""} \cup DbNames, t \in TableNames}

ColLists == {<<"id">>, <<"id", "a">>, <<"a", "id">>, <<"id", "a", "b">>, <<"a">>, <<"id", "id">>}

RowSpec(vs) == [Values |-> vs]

Rows ==
  {RowSpec(<<Number(1)>>), RowSpec(<<Number(300)>>),
   RowSpec(<<Number(1), Number(2)>>), RowSpec(<<String(<<120>>), Number(2)>>),
   RowSpec(<<Number(2), Number(1), String(<<120, 121>>)>>)}

RowSeqs == UNION {[1..n -> Rows] : n \in 0..MaxRows}

UpsertIntoStmts ==
  {[kind |-> "UpsertInto", tableRef |-> r, cols |-> c, rows |-> rs]
   : r \in TableRefs, c \in ColLists, rs \in RowSeqs}

\* The statements a TxStmt of the model wraps
TxChildren ==
  CreateDatabaseStmts \cup UseDatabaseStmts \cup CreateTableStmts \cup CreateIndexStmts
  \cup {u \in UpsertIntoStmts :
          /\ u.tableRef.db = ""
          /\ Len(u.rows) = 1
          /\ Len(u.rows[1].Values) = Len(u.cols)}

TxStmts ==
  {[kind |-> "Tx", stmts |-> ss] : ss \in UNION {[1..n -> TxChildren] : n \in 0..MaxTxLen}}

Snapshots == {Nil, [ts |-> 1]}

Comparisons == {"EqualTo", "LowerThan", "LowerOrEqualTo", "GreaterThan", "GreaterOrEqualTo"}

ColSelector(d, t, c) == [kind |-> "ColSelector", db |-> d, table |-> t, col |-> c, as |-> ""]

OrdSelectors ==
  {Nil} \cup {ColSelector("", "", c) : c \in ColNames}
        \cup {ColSelector("db1", "t1", "id"), ColSelector("", "t2", "id")}

InitKeyVals == {<<>>, [i \in 1..8 |-> 1], [i \in 1..9 |-> 1]}

\* initKeyVal is given only with useInitKeyVal
OrdCols ==
  {Nil} \cup {o \in [sel : OrdSelectors, cmp : Comparisons, initKeyVal : InitKeyVals,
                     useInitKeyVal : BOOLEAN]
              : o.useInitKeyVal \/ o.initKeyVal = <<>>}

\* The ORDER BY columns of a SELECT: the selector is never nil
SelectOrdCols ==
  {[sel |-> ColSelector("", "", c), cmp |-> "GreaterOrEqualTo", initKeyVal |-> <<>>,
    useInitKeyVal |-> FALSE] : c \in ColNames}

SelectStmt(ds, orderBy) == [kind |-> "Select", ds |-> ds, orderBy |-> orderBy]

\* The data sources of a SELECT: a table, or a SELECT over a table
DataSources == TableRefs \cup {SelectStmt(r, <<>>) : r \in {[db |-> "", table |-> "t1", as |-> ""]}}

SelectStmts ==
  {SelectStmt(ds, ob) : ds \in DataSources,
                        ob \in UNION {[1..n -> SelectOrdCols] : n \in 0..MaxOrderBy}}

---------------------------------------------------------------------------
(* The engine: one call at a time *)

None == [op |-> "none"]

Init ==
  /\ catalog = <<>>
  /\ implicitDatabase = ""
  /\ ret = None
  /\ emitted = EmptyBag
  /\ jin = None
  /\ jout = None

e0 == Engine(catalog, implicitDatabase)

\* The CATALOG.INDEX entries that CreateIndexStmt.CompileUsing returned during a call
IndexCEs(stmt, ces, children) ==
  IF stmt.kind = "CreateIndex" THEN ces
  ELSE IF stmt.kind = "Tx"
       THEN Concat([i \in DOMAIN children |->
                      IF stmt.stmts[i].kind = "CreateIndex" THEN children[i].cs ELSE <<>>])
       ELSE <<>>

RECURSIVE KeysBag(_)
KeysBag(kvs) == IF kvs = <<>> THEN EmptyBag ELSE SetToBag({Head(kvs).Key}) (+) KeysBag(Tail(kvs))

\* A call of stmt.CompileUsing(e) that ends with outcome o
Compiled(stmt, o, children) ==
  /\ catalog' = o.catalog
  /\ implicitDatabase' = o.implicitDatabase
  /\ ret' = [op |-> "CompileUsing", stmt |-> stmt, ces |-> o.ces, des |-> o.des,
             err |-> o.err, children |-> children]
  /\ emitted' = emitted (+) KeysBag(IndexCEs(stmt, o.ces, children))
  /\ UNCHANGED <<jin, jout>>

CreateDatabase ==
  /\ ret = None
  /\ \E stmt \in CreateDatabaseStmts : \E o \in CreateDatabaseCompile(stmt, e0) :
       Compiled(stmt, o, <<>>)

UseDatabase ==
  /\ ret = None
  /\ \E stmt \in UseDatabaseStmts : \E o \in UseDatabaseCompile(stmt, e0) :
       Compiled(stmt, o, <<>>)

UseSnapshot ==
  /\ ret = None
  /\ \E stmt \in UseSnapshotStmts : \E o \in UseSnapshotCompile(stmt, e0) :
       Compiled(stmt, o, <<>>)

CreateTable ==
  /\ ret = None
  /\ \E stmt \in CreateTableStmts : \E o \in CreateTableCompile(stmt, e0) :
       Compiled(stmt, o, <<>>)

CreateIndex ==
  /\ ret = None
  /\ \E stmt \in CreateIndexStmts : \E o \in CreateIndexCompile(stmt, e0) :
       Compiled(stmt, o, <<>>)

AddColumn ==
  /\ ret = None
  /\ \E stmt \in AddColumnStmts : \E o \in AddColumnCompile(stmt, e0) :
       Compiled(stmt, o, <<>>)

UpsertInto ==
  /\ ret = None
  /\ \E stmt \in UpsertIntoStmts : \E o \in UpsertIntoCompile(stmt, e0) :
       Compiled(stmt, o, <<>>)

Select ==
  /\ ret = None
  /\ \E stmt \in SelectStmts : \E o \in SelectCompile(stmt, e0) :
       Compiled(stmt, o, <<>>)

Tx ==
  /\ ret = None
  /\ \E stmt \in TxStmts : \E o \in TxCompile(stmt, e0) :
       Compiled(stmt, o, o.children)

\* A call of TableRef.referencedTable
ReferencedTable ==
  /\ ret = None
  /\ \E ref \in TableRefs, e \in {e0, NilEngine} :
       LET t == referencedTable(ref, e)
       IN ret' = [op |-> "referencedTable", ref |-> ref, e |-> e,
                  err |-> t.err, db |-> t.db, table |-> t.table]
  /\ UNCHANGED <<catalog, implicitDatabase, emitted, jin, jout>>

\* A call of TableRef.Resolve
ResolveTableRef ==
  /\ ret = None
  /\ \E ref \in TableRefs, e \in {e0, NilEngine}, snap \in Snapshots, ordCol \in OrdCols :
       LET r == Resolve(ref, e, snap, ordCol)
       IN ret' = [op |-> "Resolve", ref |-> ref, e |-> e, snap |-> snap, ordCol |-> ordCol,
                  err |-> r.err, reader |-> r.reader]
  /\ UNCHANGED <<catalog, implicitDatabase, emitted, jin, jout>>

\* The caller takes the result
Return ==
  /\ ret # None
  /\ ret' = None
  /\ UNCHANGED <<catalog, implicitDatabase, emitted, jin, jout>>

Next ==
  \/ CreateDatabase
  \/ UseDatabase
  \/ UseSnapshot
  \/ CreateTable
  \/ CreateIndex
  \/ AddColumn
  \/ UpsertInto
  \/ Select
  \/ Tx
  \/ ReferencedTable
  \/ ResolveTableRef
  \/ Return

Spec == Init /\ [][Next]_vars

---------------------------------------------------------------------------
(* jointColumnTo *)

NoJoint(err) == [err |-> err, sel |-> Nil]

\* ColSelector.jointColumnTo; col is a catalog column, with the names of its table
\* and database
ColSelectorJointColumnTo(bexp, col) ==
  IF bexp.db # "" /\ bexp.db # col.db THEN NoJoint("JointColumnNotFound")
  ELSE IF bexp.table # "" /\ bexp.table # col.table THEN NoJoint("JointColumnNotFound")
  ELSE IF bexp.col # col.colName THEN NoJoint("JointColumnNotFound")
  ELSE [err |-> "", sel |-> bexp]

\* CmpBoolExp.jointColumnTo
CmpBoolExpJointColumnTo(bexp, col) ==
  IF bexp.op # "EQ" THEN NoJoint("JointColumnNotFound")
  ELSE IF bexp.left.kind # "ColSelector" \/ bexp.right.kind # "ColSelector"
       THEN NoJoint("JointColumnNotFound")
  ELSE
    LET errLeft == ColSelectorJointColumnTo(bexp.left, col).err
        errRight == ColSelectorJointColumnTo(bexp.right, col).err
    IN IF errLeft # "" /\ errLeft # "JointColumnNotFound" THEN NoJoint(errLeft)
       ELSE IF errRight # "" /\ errRight # "JointColumnNotFound" THEN NoJoint(errRight)
       ELSE IF errLeft = "" /\ errRight = "" THEN NoJoint("InvalidJointColumn")
       ELSE IF errLeft = "" THEN [err |-> "", sel |-> bexp.right]
       ELSE [err |-> "", sel |-> bexp.left]

RECURSIVE jointColumnTo(_, _)

\* The operand of BinBoolExp.jointColumnTo that yields jcolRight: bexp.left
BinRightOperand(bexp) == bexp.left

\* BinBoolExp.jointColumnTo.  The two results of one operand are one selector, so
\* jcolLeft != jcolRight compares them as values.
BinBoolExpJointColumnTo(bexp, col) ==
  LET l == jointColumnTo(bexp.left, col)
      r == jointColumnTo(BinRightOperand(bexp), col)
  IN IF l.err # "" /\ l.err # "JointColumnNotFound" THEN NoJoint(l.err)
     ELSE IF r.err # "" /\ r.err # "JointColumnNotFound" THEN NoJoint(r.err)
     ELSE IF l.err = "JointColumnNotFound" /\ r.err = "JointColumnNotFound"
          THEN NoJoint("JointColumnNotFound")
     ELSE IF l.err = "" /\ r.err = "" /\ l.sel # r.sel THEN NoJoint("InvalidJointColumn")
     ELSE IF l.err = "" THEN [err |-> "", sel |-> l.sel]
     ELSE [err |-> r.err, sel |-> r.sel]

\* BoolExp.jointColumnTo and Value.jointColumnTo, by the type of the node
jointColumnTo(bexp, col) ==
  CASE bexp.kind = "ColSelector" -> ColSelectorJointColumnTo(bexp, col)
    [] bexp.kind = "NotBoolExp" -> jointColumnTo(bexp.exp, col)
    [] bexp.kind = "CmpBoolExp" -> CmpBoolExpJointColumnTo(bexp, col)
    [] bexp.kind = "BinBoolExp" -> BinBoolExpJointColumnTo(bexp, col)
    [] OTHER -> NoJoint("JointColumnNotFound")

\* The expressions and columns of the calls
JointCols ==
  {[db |-> "db1", table |-> "t1", colName |-> "id"],
   [db |-> "db1", table |-> "t1", colName |-> "a"]}

CmpOperators == {"EQ", "NE", "LT", "LE", "GT", "GE"}
LogicOperators == {"AND", "OR"}

JointSelectors ==
  {ColSelector(d, t, c) : d \in {"", "db1", "db2"}, t \in {"", "t1", "t2"}, c \in {"id", "a"}}

LikeBoolExps == {[kind |-> "LikeBoolExp", col |-> ColSelector("", "", "id"), pattern |-> "x"]}
ExistsBoolExps == {[kind |-> "ExistsBoolExp", q |-> Nil]}

CmpBoolExps ==
  {[kind |-> "CmpBoolExp", op |-> o, left |-> l, right |-> r]
   : o \in CmpOperators, l \in JointSelectors \cup {Number(1)},
     r \in JointSelectors \cup {Number(1)}}

\* The operands of the NotBoolExps and BinBoolExps of the model
Operands ==
  {ColSelector("", "", "id"), ColSelector("", "t2", "id"), Number(1)}
  \cup LikeBoolExps \cup ExistsBoolExps
  \cup {c \in CmpBoolExps :
          /\ c.op \in {"EQ", "NE"}
          /\ c.left \in {ColSelector("", "", "id"), ColSelector("", "t1", "id"),
                         ColSelector("", "", "a"), Number(1)}
          /\ c.right \in {ColSelector("db1", "", "id"), ColSelector("", "t1", "a"),
                          ColSelector("", "t2", "a")}}

NotBoolExps == {[kind |-> "NotBoolExp", exp |-> x] : x \in Operands}

BinBoolExps ==
  {[kind |-> "BinBoolExp", op |-> o, left |-> l, right |-> r]
   : o \in LogicOperators, l \in Operands \cup NotBoolExps, r \in Operands \cup NotBoolExps}

JointExps ==
  JointSelectors \cup {Number(1), String(<<120>>)} \cup LikeBoolExps \cup ExistsBoolExps
  \cup CmpBoolExps \cup NotBoolExps \cup BinBoolExps

InitJoint ==
  /\ catalog = <<>>
  /\ implicitDatabase = ""
  /\ ret = None
  /\ emitted = EmptyBag
  /\ jin \in [exp : JointExps, col : JointCols]
  /\ jout = None

\* A call of jin.exp.jointColumnTo(jin.col)
JointReturned ==
  /\ jout' = jointColumnTo(jin.exp, jin.col)
  /\ UNCHANGED <<catalog, implicitDatabase, ret, emitted, jin>>

ValueJoint ==
  /\ jout = None
  /\ jin.exp.kind \in {"Number", "String"}
  /\ JointReturned

ColSelectorJoint ==
  /\ jout = None
  /\ jin.exp.kind = "ColSelector"
  /\ JointReturned

NotJoint ==
  /\ jout = None
  /\ jin.exp.kind = "NotBoolExp"
  /\ JointReturned

LikeJoint ==
  /\ jout = None
  /\ jin.exp.kind = "LikeBoolExp"
  /\ JointReturned

CmpJoint ==
  /\ jout = None
  /\ jin.exp.kind = "CmpBoolExp"
  /\ JointReturned

BinJoint ==
  /\ jout = None
  /\ jin.exp.kind = "BinBoolExp"
  /\ JointReturned

ExistsJoint ==
  /\ jout = None
  /\ jin.exp.kind = "ExistsBoolExp"
  /\ JointReturned

NextJoint ==
  \/ ValueJoint
  \/ ColSelectorJoint
  \/ NotJoint
  \/ LikeJoint
  \/ CmpJoint
  \/ BinJoint
  \/ ExistsJoint

SpecJoint == InitJoint /\ [][NextJoint]_vars

---------------------------------------------------------------------------
(* The claims *)

Compiles(kind) == ret.op = "CompileUsing" /\ ret.stmt.kind = kind

\* The (cs, ds) of the children of a TxStmt, each list concatenated in order
ChildrenCes == Concat([i \in DOMAIN ret.children |-> ret.children[i].cs])
ChildrenDes == Concat([i \in DOMAIN ret.children |-> ret.children[i].ds])

\* C1: a TxStmt whose children all compile returns the concatenation, in order, of
\* the children's catalog entries and of the children's data entries.
C1_TxConcatenatesChildren ==
  (Compiles("Tx") /\ ret.err = "") =>
     /\ ret.ces = ChildrenCes
     /\ ret.des = ChildrenDes

\* C2: a TxStmt with a failing child returns no entries and leaves the catalog as it
\* was before the call.
C2_FailedTxLeavesCatalog ==
  [][(ret = None /\ ret'.op = "CompileUsing" /\ ret'.stmt.kind = "Tx" /\ ret'.err # "") =>
       /\ ret'.ces = <<>>
       /\ ret'.des = <<>>
       /\ catalog' = catalog]_vars

\* The table an UPSERT that was compiled wrote to, as TableRef.referencedTable
\* resolves it (the catalog is the one of the call: an UPSERT does not change it)
UpsertTarget == referencedTable(ret.stmt.tableRef, e0)
UpsertTable == catalog[UpsertTarget.db].tables[UpsertTarget.table]

UpsertOK == Compiles("UpsertInto") /\ ret.err = ""

\* The place of a column in the column list of the UPSERT
ListedAt(name) == CHOOSE p \in DOMAIN ret.stmt.cols : ret.stmt.cols[p] = name
Listed(name) == \E p \in DOMAIN ret.stmt.cols : ret.stmt.cols[p] = name

\* The data entries of the r-th row: 1 + i of them for i indexes
RowEntries(r) ==
  LET i == Cardinality(UpsertTable.indexes)
  IN SubSeq(ret.des, (r - 1) * (1 + i) + 1, r * (1 + i))

RowKeyPrefix(colID) ==
  Bytes(rowPrefix) \o encodeID(UpsertTarget.db) \o encodeID(UpsertTarget.table)
                   \o encodeID(colID)

\* The key encoding of the PK value of the r-th row
RowPKEnc(r) ==
  LET pk == UpsertTable.cols[UpsertTable.pk]
  IN encodeValue(ret.stmt.rows[r].Values[ListedAt(pk.colName)], pk.colType, TRUE).bytes

HasPrefix(k, p) == Len(k) >= Len(p) /\ SubSeq(k, 1, Len(p)) = p
HasSuffix(k, x) == Len(k) >= Len(x) /\ SubSeq(k, Len(k) - Len(x) + 1, Len(k)) = x

\* C3: the entry of a successful UPSERT for an indexed column c and a row is keyed by
\* the encoding of the value the row has for c, and is not built from the value of
\* another listed column when c is not listed.
C3_SecondaryKeyFromOwnColumn ==
  UpsertOK =>
    \A r \in DOMAIN ret.stmt.rows : \A c \in UpsertTable.indexes :
      LET col == UpsertTable.cols[c]
          row == ret.stmt.rows[r]
          entries == {x \in {RowEntries(r)[j] : j \in DOMAIN RowEntries(r)}
                        : HasPrefix(x.Key, RowKeyPrefix(c))}
      IN IF Listed(col.colName)
         THEN entries =
                {KV(RowKeyPrefix(c)
                      \o encodeValue(row.Values[ListedAt(col.colName)], col.colType, TRUE).bytes
                      \o RowPKEnc(r),
                    <<>>)}
         ELSE \A x \in entries : \A p \in DOMAIN row.Values :
                LET enc == encodeValue(row.Values[p], col.colType, TRUE)
                IN enc.err # "" \/ x.Key # RowKeyPrefix(c) \o enc.bytes \o RowPKEnc(r)

\* C4: referencedTable resolves the table in the database the TableRef names when it
\* names one (DatabaseDoesNotExist when there is no such database), and in the
\* implicit database only when it names none.
C4_ReferencedTableUsesNamedDB ==
  (ret.op = "referencedTable" /\ ~IsNil(ret.e)) =>
     IF ret.ref.db # ""
     THEN IF ~ExistDatabase(catalog, ret.ref.db) THEN ret.err = "DatabaseDoesNotExist"
          ELSE LET dbID == dbsByName(catalog, ret.ref.db)
               IN ExistTable(catalog[dbID], ret.ref.table) =>
                    /\ ret.err = ""
                    /\ ret.db = dbID
                    /\ ret.table = tablesByName(catalog[dbID], ret.ref.table)
     ELSE (implicitDatabase # ""
           /\ ExistTable(catalog[dbsByName(catalog, implicitDatabase)], ret.ref.table)) =>
             /\ ret.err = ""
             /\ ret.db = dbsByName(catalog, implicitDatabase)

\* C5: CREATE TABLE returns one CATALOG.COLUMN entry per declared column, keyed by the
\* ids of database, table and column and the type, with the column's name as value,
\* and one CATALOG.TABLE entry keyed by the id of the PK column with the table's name
\* as value; without an implicit database it fails with NoDatabaseSelected and
\* returns nothing.
C5_CreateTableEntries ==
  Compiles("CreateTable") =>
    IF implicitDatabase = ""
    THEN ret.err = "NoDatabaseSelected" /\ ret.ces = <<>> /\ ret.des = <<>>
    ELSE ret.err = "" =>
      LET dbID == dbsByName(catalog, implicitDatabase)
          tID == tablesByName(catalog[dbID], ret.stmt.table)
          table == catalog[dbID].tables[tID]
          ids(c) == encodeID(dbID) \o encodeID(tID) \o encodeID(c)
          colEntry(c) == KV(Bytes(catalogColumnPrefix) \o ids(c) \o Bytes(table.cols[c].colType),
                            Bytes(table.cols[c].colName))
          tableEntry == KV(Bytes(catalogTablePrefix) \o ids(table.pk), Bytes(table.name))
      IN /\ table.cols = ret.stmt.colsSpec
         /\ table.cols[table.pk].colName = ret.stmt.pk
         /\ Len(ret.ces) = Len(table.cols) + 1
         /\ {ret.ces[k] : k \in DOMAIN ret.ces}
              = {colEntry(c) : c \in DOMAIN table.cols} \cup {tableEntry}
         /\ ret.des = <<>>

\* The type of the column a reader walks
ReaderColType(reader) ==
  LET table == catalog[reader.db].tables[reader.table]
  IN table.cols[colsByName(table, reader.colName)].colType

\* C6: Resolve with useInitKeyVal starts the scan at exactly the caller's initKeyVal,
\* which is then no longer than maxKeyVal of the column's type; a longer one is
\* rejected and no reader is made.
C6_InitKeyValBounded ==
  (ret.op = "Resolve" /\ ~IsNil(ret.ordCol) /\ ret.ordCol.useInitKeyVal) =>
     /\ ret.err # "" => IsNil(ret.reader)
     /\ ret.err = "" =>
          /\ ret.reader.initKeyVal = ret.ordCol.initKeyVal
          /\ Len(ret.ordCol.initKeyVal) <= Len(maxKeyVal(ReaderColType(ret.reader)))

\* Whether a selector binds to the column: by optional db, optional table and column name
Binds(sel, col) ==
  /\ sel.db = "" \/ sel.db = col.db
  /\ sel.table = "" \/ sel.table = col.table
  /\ sel.col = col.colName

\* C7: a CmpBoolExp with EQ over two ColSelectors yields a selector only when exactly
\* one side binds to col, InvalidJointColumn when both do and JointColumnNotFound when
\* neither does; any other CmpBoolExp yields JointColumnNotFound.
C7_CmpJointColumn ==
  (jout # None /\ jin.exp.kind = "CmpBoolExp") =>
     LET x == jin.exp
     IN IF x.op = "EQ" /\ x.left.kind = "ColSelector" /\ x.right.kind = "ColSelector"
        THEN LET l == Binds(x.left, jin.col)
                 r == Binds(x.right, jin.col)
             IN /\ (l /\ r) => jout.err = "InvalidJointColumn"
                /\ (~l /\ ~r) => jout.err = "JointColumnNotFound"
                /\ jout.err = "" => (l # r)
        ELSE jout.err = "JointColumnNotFound"

\* C8: a BinBoolExp takes both operands into account: different joint columns on the
\* two sides give InvalidJointColumn, a joint column on the right side alone is
\* returned, InvalidJointColumn of the right side is returned, and
\* JointColumnNotFound is returned only when neither side has a joint column.
C8_BinJointColumn ==
  (jout # None /\ jin.exp.kind = "BinBoolExp") =>
     LET l == jointColumnTo(jin.exp.left, jin.col)
         r == jointColumnTo(jin.exp.right, jin.col)
     IN /\ (l.err = "" /\ r.err = "" /\ l.sel # r.sel) => jout.err = "InvalidJointColumn"
        /\ (l.err = "JointColumnNotFound" /\ r.err = "") => jout = r
        /\ r.err = "InvalidJointColumn" => jout.err = "InvalidJointColumn"
        /\ jout.err = "JointColumnNotFound" =>
             (l.err = "JointColumnNotFound" /\ r.err = "JointColumnNotFound")

\* The payload of a row: the number of columns, then for each value the length of the
\* column's name, the name and the encoded value
Payload(row, table, cols) ==
  PutUint32(Len(cols))
  \o Concat([p \in DOMAIN row.Values |->
               LET col == table.cols[colsByName(table, cols[p])]
               IN PutUint32(Len(Bytes(col.colName))) \o Bytes(col.colName)
                  \o encodeValue(row.Values[p], col.colType, FALSE).bytes])

C10_CreateIndexOnce ==
  [][/\ (ret = None /\ ret'.op = "CompileUsing" /\ ret'.stmt.kind = "CreateIndex"
         /\ implicitDatabase # ""
         /\ ExistTable(catalog[dbsByName(catalog, implicitDatabase)], ret'.stmt.table)) =>
          LET db == catalog[dbsByName(catalog, implicitDatabase)]
              table == db.tables[tablesByName(db, ret'.stmt.table)]
              name == ret'.stmt.col
          IN /\ name = table.cols[table.pk].colName => ret'.err = "IndexAlreadyExists"
             /\ (ExistColumn(table, name) /\ colsByName(table, name) \in table.indexes)
                  => ret'.err = "IndexAlreadyExists"
             /\ ~ExistColumn(table, name) => ret'.err = "ColumnDoesNotExist"
             /\ ret'.err # "" => (ret'.ces = <<>> /\ catalog' = catalog /\ emitted' = emitted)
             /\ ret'.err = "" => Len(ret'.ces) = 1
     /\ \A d \in DOMAIN catalog' : \A t \in DOMAIN catalog'[d].tables :
          catalog'[d].tables[t].pk \notin catalog'[d].tables[t].indexes
     /\ \A k \in BagToSet(emitted') : CopiesIn(k, emitted') = 1]_vars

\* C10 happens: a second CREATE INDEX on an indexed column that is not the PK failed
C10_Witness ==
  /\ Compiles("CreateIndex")
  /\ ret.err = "IndexAlreadyExists"
  /\ implicitDatabase # ""
  /\ LET db == catalog[dbsByName(catalog, implicitDatabase)]
         table == db.tables[tablesByName(db, ret.stmt.table)]
     IN /\ ret.stmt.col # table.cols[table.pk].colName
        /\ colsByName(table, ret.stmt.col) \in table.indexes

\* Whether every listed column of the compiled UPSERT is a column of the table
UpsertColsExist == \A p \in DOMAIN ret.stmt.cols : ExistColumn(UpsertTable, ret.stmt.cols[p])

\* Whether the column list repeats a column, and whether it leaves the PK column out
UpsertRepeats ==
  \E p, q \in DOMAIN ret.stmt.cols : p # q /\ ret.stmt.cols[p] = ret.stmt.cols[q]
UpsertOmitsPK == ~Listed(UpsertTable.cols[UpsertTable.pk].colName)

\* A row with as many values as listed columns, each of the type of its column
ValidRow(r) ==
  LET row == ret.stmt.rows[r]
  IN /\ Len(row.Values) = Len(ret.stmt.cols)
     /\ \A p \in DOMAIN row.Values :
          LET col == UpsertTable.cols[colsByName(UpsertTable, ret.stmt.cols[p])]
          IN /\ encodeValue(row.Values[p], col.colType, TRUE).err = ""
             /\ encodeValue(row.Values[p], col.colType, FALSE).err = ""

\* A row whose number of values differs from the number of listed columns, after
\* valid rows only
FaultyRowAfterValid ==
  \E r \in DOMAIN ret.stmt.rows :
    /\ Len(ret.stmt.rows[r].Values) # Len(ret.stmt.cols)
    /\ \A q \in 1..(r - 1) : ValidRow(q)

\* C11: an UPSERT into a table it resolves, listing columns of the table, fails with
\* DuplicatedColumn when the list repeats a column, with PKCanNotBeNull when the list
\* leaves the PK column out, and with InvalidNumberOfValues when a row, also one after
\* valid rows, has another number of values than listed columns; each of these
\* failures returns no entry at all.
C11_UpsertValidation ==
  (Compiles("UpsertInto") /\ UpsertTarget.err = "" /\ UpsertColsExist) =>
     /\ UpsertRepeats => ret.err = "DuplicatedColumn"
     /\ (~UpsertRepeats /\ UpsertOmitsPK) => ret.err = "PKCanNotBeNull"
     /\ (~UpsertRepeats /\ ~UpsertOmitsPK /\ FaultyRowAfterValid)
          => ret.err = "InvalidNumberOfValues"
     /\ ret.err \in {"DuplicatedColumn", "PKCanNotBeNull", "InvalidNumberOfValues"}
          => (ret.ces = <<>> /\ ret.des = <<>>)

====
